---- MODULE Spec2Model ----
(***************************************************************************)
(* The game aggregate of mineswept-demo (package game): grid generation,   *)
(* the cell-name codec, the neighbour resolver and the event-sourced       *)
(* RevealCell state machine, translated from src/game/game.go.             *)
(*                                                                         *)
(* Go values are modelled as follows.                                      *)
(*   - a coordinate [2]int{x, y} is the tuple <<x, y>>; c[1] is Go's c[0]  *)
(*     and c[2] is Go's c[1];                                              *)
(*   - a [][]cell is a function row -> column -> cell over 0-based index   *)
(*     ranges; an index outside the range is Go's run-time panic;          *)
(*   - a slice value is an address into heap: g.grid and the grid field of *)
(*     the logged gameStartedEvent hold the same address, as the Go slice  *)
(*     headers share their backing arrays;                                 *)
(*   - a string is the sequence of its ASCII codes;                        *)
(*   - the At timestamps of events are left out (no code reads them).      *)
(***************************************************************************)
EXTENDS Integers, Sequences, FiniteSets, TLC

VARIABLES pc, g, heap, call, applied

vars == <<pc, g, heap, call, applied>>

(* ------------------------------ bounds -------------------------------- *)

(* Mines placed on a grid (besides the boundary counts width*height and    *)
(* width*height + 1, which NewGame is always tried with).                  *)
MaxMines == 1

(* The valid grid widths and heights games are created with. *)
GridWidths == {2, 3}
GridHeights == {2, 3}

(* The characters of cell names: the column keys A, B, C and the digits    *)
(* 0, 1, 2, 3.                                                             *)
Letters == {65, 66, 67}
Digits == {48, 49, 50, 51}

(* The longest cell name and the longest column key the pure functions are *)
(* called with.                                                            *)
MaxNameLen == 3
MaxKeyLen == 2

(* The characters of those names: A, B, Z, b, the underscore (a code       *)
(* between 'Z' and 'a'), the digits 0, 1, 2 and the hyphen (a code outside *)
(* both character classes). The letters of column keys: A, B, Z, a, b, z.  *)
WireChars == {65, 66, 90, 98, 95, 48, 49, 50, 45}
KeyLetters == {65, 66, 90, 97, 98, 122}

(* The grid sizes getNeighbors is called with. *)
NeighborSizes == {2, 3, 4}

(* ------------------------- program constants -------------------------- *)

MinDim == 2
MaxDim == 40
MinMines == 1

(* ------------------------------ helpers ------------------------------- *)

NilSlice == 0
GridAddr == 1

NoCoord == <<>>

(* The zero value of the cell struct. *)
cell == [isFlagged |-> FALSE, isMined |-> FALSE, isRevealed |-> FALSE,
         adjacentMines |-> 0]

(* len(grid) and len(grid[0]) *)
Len2(matrix) == Cardinality(DOMAIN matrix)
Len1(matrix) == Cardinality(DOMAIN matrix[0])

(* ------------------------- grid generation ---------------------------- *)

initEmptyMatrix(width, height) ==
  [i \in 0..(height - 1) |-> [j \in 0..(width - 1) |-> cell]]

(* The set of coordinate sets chooseMinePlacements can return: mineCount   *)
(* distinct coordinates with x drawn from [0,width) and y from [0,height). *)
chooseMinePlacements(width, height, mineCount) ==
  {S \in SUBSET ((0..(width - 1)) \X (0..(height - 1))) :
     Cardinality(S) = mineCount}

(* The index pairs <<i, j>> of the matrix[i][j].adjacentMines++ statements *)
(* generateGrid executes for the mine coordinate c, in program order.      *)
adjacentIncrements(c, width, height) ==
  LET c0 == c[1]
      c1 == c[2]
  IN  (IF c0 > 0
         THEN (IF c1 > 0 THEN << <<c0 - 1, c1 - 1>> >> ELSE << >>)
              \o << <<c0 - 1, c1>> >>
              \o (IF c1 < height - 1 THEN << <<c0 - 1, c1 + 1>> >> ELSE << >>)
         ELSE << >>)
      \o (IF c1 > 0 THEN << <<c0, c1 - 1>> >> ELSE << >>)
      \o (IF c1 < height - 1 THEN << <<c0, c1 + 1>> >> ELSE << >>)
      \o (IF c0 < width - 1
            THEN (IF c1 > 0 THEN << <<c0 + 1, c1 - 1>> >> ELSE << >>)
                 \o << <<c0 + 1, c1>> >>
                 \o (IF c1 < height - 1 THEN << <<c0 + 1, c1 + 1>> >> ELSE << >>)
            ELSE << >>)

InRange(matrix, i, j) == i \in DOMAIN matrix /\ j \in DOMAIN matrix[i]

RECURSIVE incrementAll(_, _, _)
incrementAll(res, targets, k) ==
  IF res.panic \/ k > Len(targets) THEN res
  ELSE LET i == targets[k][1]
           j == targets[k][2]
       IN  IF ~InRange(res.matrix, i, j)
             THEN [res EXCEPT !.panic = TRUE]
             ELSE incrementAll(
                    [res EXCEPT !.matrix[i][j].adjacentMines = @ + 1],
                    targets, k + 1)

(* One iteration of generateGrid's loop over mineCoords. *)
placeMine(res, c, width, height) ==
  IF res.panic THEN res
  ELSE IF ~InRange(res.matrix, c[1], c[2])
         THEN [res EXCEPT !.panic = TRUE]
         ELSE incrementAll([res EXCEPT !.matrix[c[1]][c[2]].isMined = TRUE],
                           adjacentIncrements(c, width, height), 1)

(* The loop over mineCoords. Go ranges over the map in an unspecified      *)
(* order; the increments commute and the call panics iff some iteration    *)
(* does, so one order stands for all of them.                              *)
RECURSIVE placeMines(_, _, _, _)
placeMines(res, mineCoords, width, height) ==
  IF mineCoords = {} THEN res
  ELSE LET c == CHOOSE m \in mineCoords : TRUE
       IN  placeMines(placeMine(res, c, width, height),
                      mineCoords \ {c}, width, height)

(* A variant of generateGridError that compares against the upper limit    *)
(* before the lower one.                                                   *)
generateGridErrorLargeFirst(width, height, mineCount) ==
  IF width > MaxDim \/ height > MaxDim THEN "InvalidDimensionsTooLarge"
  ELSE IF width < MinDim \/ height < MinDim THEN "InvalidDimensionsTooSmall"
  ELSE IF mineCount < MinMines THEN "TooFewMines"
  ELSE IF mineCount > width * height THEN "TooManyMines"
  ELSE "nil"

(* generateGrid's validation: the error it returns, or "nil". *)
generateGridError(width, height, mineCount) ==
  IF width < MinDim \/ height < MinDim THEN "InvalidDimensionsTooSmall"
  ELSE IF width > MaxDim \/ height > MaxDim THEN "InvalidDimensionsTooLarge"
  ELSE IF mineCount < MinMines THEN "TooFewMines"
  ELSE IF mineCount > width * height THEN "TooManyMines"
  ELSE "nil"

(* generateGrid after validation, for the placement mineCoords. *)
generateGrid(width, height, mineCoords) ==
  placeMines([panic |-> FALSE, matrix |-> initEmptyMatrix(width, height)],
             mineCoords, width, height)

(* --------------------------- neighbours ------------------------------- *)

(* A variant of getNeighbors whose right-hand bound is off by one: it      *)
(* leaves out the column x+1 next to the last column.                      *)
getNeighborsShortOfLastColumn(coord, width, height) ==
  LET xs == << coord[1] >>
            \o (IF coord[1] > 0 THEN << coord[1] - 1 >> ELSE << >>)
            \o (IF coord[1] < width - 2 THEN << coord[1] + 1 >> ELSE << >>)
      ys == << coord[2] >>
            \o (IF coord[2] > 0 THEN << coord[2] - 1 >> ELSE << >>)
            \o (IF coord[2] < height - 1 THEN << coord[2] + 1 >> ELSE << >>)
      all == [k \in 1..(Len(xs) * Len(ys)) |->
                << xs[((k - 1) \div Len(ys)) + 1], ys[((k - 1) % Len(ys)) + 1] >>]
      NotSelf(c) == c # coord
  IN  SelectSeq(all, NotSelf)

(* A variant of getNeighbors without the c != coord test: the input is     *)
(* among the coordinates returned.                                         *)
getNeighborsWithSelf(coord, width, height) ==
  LET xs == << coord[1] >>
            \o (IF coord[1] > 0 THEN << coord[1] - 1 >> ELSE << >>)
            \o (IF coord[1] < width - 1 THEN << coord[1] + 1 >> ELSE << >>)
      ys == << coord[2] >>
            \o (IF coord[2] > 0 THEN << coord[2] - 1 >> ELSE << >>)
            \o (IF coord[2] < height - 1 THEN << coord[2] + 1 >> ELSE << >>)
  IN  [k \in 1..(Len(xs) * Len(ys)) |->
         << xs[((k - 1) \div Len(ys)) + 1], ys[((k - 1) % Len(ys)) + 1] >>]

(* getNeighbors: the list it builds, in the order the nested loops append. *)
getNeighbors(coord, width, height) ==
  LET xs == << coord[1] >>
            \o (IF coord[1] > 0 THEN << coord[1] - 1 >> ELSE << >>)
            \o (IF coord[1] < width - 1 THEN << coord[1] + 1 >> ELSE << >>)
      ys == << coord[2] >>
            \o (IF coord[2] > 0 THEN << coord[2] - 1 >> ELSE << >>)
            \o (IF coord[2] < height - 1 THEN << coord[2] + 1 >> ELSE << >>)
      all == [k \in 1..(Len(xs) * Len(ys)) |->
                << xs[((k - 1) \div Len(ys)) + 1], ys[((k - 1) % Len(ys)) + 1] >>]
      NotSelf(c) == c # coord
  IN  SelectSeq(all, NotSelf)

(* ---------------------------- name codec ------------------------------ *)

(* The character classes of validCellName, "([A-z]+)([0-9]+)": the range   *)
(* A-z is every code from 'A' (65) to 'z' (122), which takes in the six    *)
(* codes 91..96 between 'Z' and 'a'.                                       *)
LetterClass == 65..122
DigitClass == 48..57

(* The first index at or after i whose character is outside class. *)
RECURSIVE RunEnd(_, _, _)
RunEnd(s, i, class) ==
  IF i > Len(s) \/ s[i] \notin class THEN i ELSE RunEnd(s, i + 1, class)

(* The expression matches at i: a greedy letter run, then a digit. The     *)
(* classes are disjoint, so no shorter letter run can match.               *)
MatchesAt(s, i) ==
  /\ s[i] \in LetterClass
  /\ LET j == RunEnd(s, i, LetterClass) IN j <= Len(s) /\ s[j] \in DigitClass

(* The leftmost index at or after i where the expression matches, or 0. *)
RECURSIVE FirstMatch(_, _)
FirstMatch(s, i) ==
  IF i > Len(s) THEN 0
  ELSE IF MatchesAt(s, i) THEN i
  ELSE FirstMatch(s, i + 1)

(* The two groups of the match that starts at i, whose letter run ends    *)
(* before j.                                                               *)
submatchGroups(s, i, j) ==
  [matched |-> TRUE, m1 |-> SubSeq(s, i, j - 1),
   m2 |-> SubSeq(s, j, RunEnd(s, j, DigitClass) - 1)]

submatchAt(s, i) ==
  IF i = 0 THEN [matched |-> FALSE, m1 |-> << >>, m2 |-> << >>]
  ELSE submatchGroups(s, i, RunEnd(s, i, LetterClass))

(* validCellName.FindStringSubmatch: the leftmost match of the unanchored  *)
(* expression and its two groups, or no match.                             *)
FindStringSubmatch(s) == submatchAt(s, FirstMatch(s, 1))

(* A variant of ToUpper that leaves lowercase letters as they are. *)
ToUpperKeepsCase(ch) == ch

(* strings.ToUpper on one ASCII code *)
ToUpper(ch) == IF ch \in 97..122 THEN ch - 32 ELSE ch

RECURSIVE Pow(_, _)
Pow(b, n) == IF n = 0 THEN 1 ELSE b * Pow(b, n - 1)

RECURSIVE columnKeySum(_, _)
columnKeySum(columnKey, k) ==
  IF k > Len(columnKey) THEN 0
  ELSE (ToUpper(columnKey[k]) - 64) * Pow(26, Len(columnKey) - k)
       + columnKeySum(columnKey, k + 1)

columnKeyToInt(columnKey) == columnKeySum(columnKey, 1) - 1

(* strconv.Atoi on a run of digits: leading zeros carry no value, and a    *)
(* value above the largest int, 9223372036854775807, is a range error.     *)
RECURSIVE StripZeros(_)
StripZeros(digits) ==
  IF digits # << >> /\ Head(digits) = 48 THEN StripZeros(Tail(digits)) ELSE digits

(* "9223372036854775807" *)
MaxIntDigits ==
  <<57, 50, 50, 51, 51, 55, 50, 48, 51, 54, 56, 53, 52, 55, 55, 53, 56, 48, 55>>

(* a and b have the same length; a is the larger number from index k on. *)
RECURSIVE DigitsAbove(_, _, _)
DigitsAbove(a, b, k) ==
  IF k > Len(a) THEN FALSE
  ELSE IF a[k] # b[k] THEN a[k] > b[k]
  ELSE DigitsAbove(a, b, k + 1)

significantOutOfRange(d) ==
  Len(d) > Len(MaxIntDigits)
    \/ (Len(d) = Len(MaxIntDigits) /\ DigitsAbove(d, MaxIntDigits, 1))

AtoiOutOfRange(digits) == significantOutOfRange(StripZeros(digits))

(* The value Atoi returns for a run that is in range. *)
RECURSIVE Atoi(_)
Atoi(digits) ==
  IF digits = << >> THEN 0
  ELSE 10 * Atoi(SubSeq(digits, 1, Len(digits) - 1)) + (digits[Len(digits)] - 48)

(* A variant of coordinateOfMatch that keeps the row number 1-based. *)
coordinateOfMatchOneBased(matches) ==
  IF ~matches.matched
    THEN [err |-> "InvalidCellName", coord |-> <<0, 0>>]
  ELSE IF AtoiOutOfRange(matches.m2)
    THEN [err |-> "InvalidCellNumber", coord |-> <<0, 0>>]
  ELSE [err |-> "nil",
        coord |-> << columnKeyToInt(matches.m1), Atoi(StripZeros(matches.m2)) >>]

(* cellNameToCoordinate from the result of FindStringSubmatch on. *)
coordinateOfMatch(matches) ==
  IF ~matches.matched
    THEN [err |-> "InvalidCellName", coord |-> <<0, 0>>]
  ELSE IF AtoiOutOfRange(matches.m2)
    THEN [err |-> "InvalidCellNumber", coord |-> <<0, 0>>]
  ELSE [err |-> "nil",
        coord |-> << columnKeyToInt(matches.m1), Atoi(StripZeros(matches.m2)) - 1 >>]

cellNameToCoordinate(cellName) == coordinateOfMatch(FindStringSubmatch(cellName))

(* The names RevealCell is called with: at most one letter followed by at *)
(* most one digit.                                                         *)
CellNames ==
  {l \o d : l \in {<< >>} \cup {<<a>> : a \in Letters},
            d \in {<< >>} \cup {<<a>> : a \in Digits}}

(* -------------------------- the aggregate ----------------------------- *)

(* game{}: the zero value of the game struct (name, createAt and updatedAt *)
(* are never read or written and are left out).                            *)
EmptyGame ==
  [id |-> "", version |-> 0, grid |-> NilSlice, cellCount |-> 0,
   revealedOrFlaggedCellCount |-> 0, isEnded |-> FALSE, events |-> << >>]

(* A machine state st is [g, heap, applied]: the game struct, the backing  *)
(* arrays its slices point into, and the number of applyTo calls made on   *)
(* the aggregate so far (a history counter, not a field of the program).   *)

BaseEvent(type, aggregateId, version) ==
  [type |-> type, AggregateId |-> aggregateId, Version |-> version]

gameStartedEvent(aggregateId, version, grid) ==
  [type |-> "gameStartedEvent", AggregateId |-> aggregateId,
   Version |-> version, grid |-> grid]

cellRevealedEvent(aggregateId, version, name, coord) ==
  [type |-> "cellRevealedEvent", AggregateId |-> aggregateId,
   Version |-> version, InteractionCellName |-> name, CellCoord |-> coord]

gameLostEvent(aggregateId, version) == BaseEvent("gameLostEvent", aggregateId, version)

gameWonEvent(aggregateId, version) == BaseEvent("gameWonEvent", aggregateId, version)

(* g.grid, dereferenced *)
GridOf(st) == st.heap[st.g.grid]

onGameStarted(st, e) ==
  [st EXCEPT !.g.id = e.AggregateId,
             !.g.version = e.Version,
             !.g.grid = e.grid,
             !.g.cellCount = Len2(st.heap[e.grid]) * Len1(st.heap[e.grid])]

(* A variant of onCellRevealed that reveals the cell and does not count it. *)
onCellRevealedUncounted(st, e) ==
  [st EXCEPT !.heap[st.g.grid][e.CellCoord[2]][e.CellCoord[1]].isRevealed = TRUE]

(* A variant of onCellRevealed that flags the cell it reveals. *)
onCellRevealedFlags(st, e) ==
  [st EXCEPT !.heap[st.g.grid][e.CellCoord[2]][e.CellCoord[1]].isRevealed = TRUE,
             !.heap[st.g.grid][e.CellCoord[2]][e.CellCoord[1]].isFlagged = TRUE,
             !.g.revealedOrFlaggedCellCount = @ + 1]

onCellRevealed(st, e) ==
  [st EXCEPT !.heap[st.g.grid][e.CellCoord[2]][e.CellCoord[1]].isRevealed = TRUE,
             !.g.revealedOrFlaggedCellCount = @ + 1]

(* A variant of onGameLost that counts every unflagged cell, revealed or   *)
(* not.                                                                    *)
onGameLostCountsRevealed(st, e) ==
  LET grid == GridOf(st)
      unflagged == {c \in (DOMAIN grid[0]) \X (DOMAIN grid) :
                      ~grid[c[2]][c[1]].isFlagged}
  IN  [st EXCEPT !.g.isEnded = TRUE,
                 !.g.revealedOrFlaggedCellCount = @ + Cardinality(unflagged),
                 !.heap[st.g.grid] =
                    [y \in DOMAIN grid |->
                       [x \in DOMAIN grid[y] |->
                          [grid[y][x] EXCEPT !.isRevealed = TRUE]]]]

(* A variant of onGameLost that ends the game and leaves the hidden cells  *)
(* hidden.                                                                 *)
onGameLostKeepsCellsHidden(st, e) ==
  [st EXCEPT !.g.isEnded = TRUE,
             !.g.revealedOrFlaggedCellCount =
                Len2(GridOf(st)) * Len1(GridOf(st))]

onGameLost(st, e) ==
  LET grid == GridOf(st)
      hidden == {c \in (DOMAIN grid[0]) \X (DOMAIN grid) :
                   ~grid[c[2]][c[1]].isRevealed /\ ~grid[c[2]][c[1]].isFlagged}
  IN  [st EXCEPT !.g.isEnded = TRUE,
                 !.g.revealedOrFlaggedCellCount = @ + Cardinality(hidden),
                 !.heap[st.g.grid] =
                    [y \in DOMAIN grid |->
                       [x \in DOMAIN grid[y] |->
                          [grid[y][x] EXCEPT !.isRevealed = TRUE]]]]

(* onGameWon is defined by the program but no applyTo calls it. *)
onGameWon(st, e) == [st EXCEPT !.g.isEnded = TRUE]

(* The applyTo methods, dispatched on the event's type. gameWonEvent's     *)
(* applyTo has an empty body.                                              *)
applyTo(e, st) ==
  LET st1 == [st EXCEPT !.applied = @ + 1]
  IN  CASE e.type = "gameStartedEvent" -> onGameStarted(st1, e)
        [] e.type = "cellRevealedEvent" -> onCellRevealed(st1, e)
        [] e.type = "gameWonEvent" -> st1
        [] e.type = "gameLostEvent" -> onGameLost(st1, e)

(* A variant of IsComplete that reports whether the game has ended. *)
isCompleteWhenEnded(st) == st.g.isEnded

(* IsComplete: the value it returns. *)
isComplete(st) == FALSE

containsCoordinate(st, coord) ==
  /\ coord[1] >= 0
  /\ coord[1] < Len1(GridOf(st))
  /\ coord[2] >= 0
  /\ coord[2] < Len2(GridOf(st))

(* ---------------------------- RevealCell ------------------------------ *)

NilEvent == [type |-> "nil"]

(* A variant of loseGameIfMined that never ends the game. *)
loseGameIfMinedNever(st, coord) == [st |-> st, e |-> NilEvent]

loseGameIfMined(st, coord) ==
  LET target == GridOf(st)[coord[2]][coord[1]]
  IN  IF ~target.isMined \/ ~target.isRevealed
        THEN [st |-> st, e |-> NilEvent]
        ELSE LET e == gameLostEvent(st.g.id, st.g.version + 1)
             IN  [st |-> applyTo(e, st), e |-> e]

winGameIfLastCell(st, coord) ==
  IF st.g.cellCount # st.g.revealedOrFlaggedCellCount
    THEN [st |-> st, e |-> NilEvent]
    ELSE LET e == gameWonEvent(st.g.id, st.g.version + 1)
         IN  [st |-> applyTo(e, st), e |-> e]

(* A variant of revealQueue that never extends the queue: the cascade      *)
(* stops at the target's own neighbours.                                   *)
RECURSIVE revealQueueOneLevel(_, _, _, _, _)
revealQueueOneLevel(st, queue, i, events, originalEvent) ==
  IF i > Len(queue) THEN [st |-> st, events |-> events]
  ELSE LET neighbor == GridOf(st)[queue[i][2]][queue[i][1]]
       IN  IF ~neighbor.isRevealed /\ ~neighbor.isMined
             THEN LET revealed == cellRevealedEvent(st.g.id, st.g.version + 1,
                                     originalEvent.InteractionCellName, queue[i])
                  IN  revealQueueOneLevel(applyTo(revealed, st), queue, i + 1,
                                          Append(events, revealed), originalEvent)
             ELSE revealQueueOneLevel(st, queue, i + 1, events, originalEvent)

(* A variant of revealQueue without the !neighbor.isMined test. *)
RECURSIVE revealQueueRevealsMines(_, _, _, _, _)
revealQueueRevealsMines(st, queue, i, events, originalEvent) ==
  IF i > Len(queue) THEN [st |-> st, events |-> events]
  ELSE LET neighbor == GridOf(st)[queue[i][2]][queue[i][1]]
       IN  IF ~neighbor.isRevealed
             THEN LET revealed == cellRevealedEvent(st.g.id, st.g.version + 1,
                                     originalEvent.InteractionCellName, queue[i])
                      st1 == applyTo(revealed, st)
                      queue1 == IF neighbor.adjacentMines = 0
                                  THEN queue \o getNeighbors(queue[i],
                                                  Len1(GridOf(st)), Len2(GridOf(st)))
                                  ELSE queue
                  IN  revealQueueRevealsMines(st1, queue1, i + 1,
                                              Append(events, revealed), originalEvent)
             ELSE revealQueueRevealsMines(st, queue, i + 1, events, originalEvent)

(* The loop of revealNeighborsIfNoAdjacentMines from queue[i] on (queue is *)
(* indexed from 1 here).                                                   *)
RECURSIVE revealQueue(_, _, _, _, _)
revealQueue(st, queue, i, events, originalEvent) ==
  IF i > Len(queue) THEN [st |-> st, events |-> events]
  ELSE LET neighbor == GridOf(st)[queue[i][2]][queue[i][1]]
       IN  IF ~neighbor.isRevealed /\ ~neighbor.isMined
             THEN LET revealed == cellRevealedEvent(st.g.id, st.g.version + 1,
                                     originalEvent.InteractionCellName, queue[i])
                      st1 == applyTo(revealed, st)
                      queue1 == IF neighbor.adjacentMines = 0
                                  THEN queue \o getNeighbors(queue[i],
                                                  Len1(GridOf(st)), Len2(GridOf(st)))
                                  ELSE queue
                  IN  revealQueue(st1, queue1, i + 1, Append(events, revealed),
                                  originalEvent)
             ELSE revealQueue(st, queue, i + 1, events, originalEvent)

(* A variant of revealNeighborsIfNoAdjacentMines that runs the cascade on  *)
(* the first reveal of a game only.                                        *)
revealNeighborsOnFirstReveal(st, coord, originalEvent) ==
  IF GridOf(st)[coord[2]][coord[1]].adjacentMines > 0
       \/ st.g.revealedOrFlaggedCellCount > 1
    THEN [st |-> st, events |-> << >>]
    ELSE revealQueue(st,
                     getNeighbors(coord, Len1(GridOf(st)), Len2(GridOf(st))),
                     1, << >>, originalEvent)

(* A variant of revealNeighborsIfNoAdjacentMines that reveals no           *)
(* neighbour.                                                              *)
revealNoNeighbors(st, coord, originalEvent) == [st |-> st, events |-> << >>]

revealNeighborsIfNoAdjacentMines(st, coord, originalEvent) ==
  IF GridOf(st)[coord[2]][coord[1]].adjacentMines > 0
    THEN [st |-> st, events |-> << >>]
    ELSE revealQueue(st,
                     getNeighbors(coord, Len1(GridOf(st)), Len2(GridOf(st))),
                     1, << >>, originalEvent)

(* g.events = append(g.events, ...) *)
appendEvents(st, es) == [st EXCEPT !.g.events = @ \o es]

(* RevealCell's checks on the decoded name, up to its last early return:  *)
(* the error and the decoded coordinate.                                   *)
checkCoordinate(st, decoded) ==
  IF decoded.err # "nil" THEN decoded
  ELSE IF ~containsCoordinate(st, decoded.coord)
    THEN [err |-> "InvalidCell", coord |-> decoded.coord]
  ELSE IF GridOf(st)[decoded.coord[2]][decoded.coord[1]].isRevealed
    THEN [err |-> "AlreadyRevealed", coord |-> decoded.coord]
  ELSE [err |-> "nil", coord |-> decoded.coord]

checkMove(st, cellName) == checkCoordinate(st, cellNameToCoordinate(cellName))

(* RevealCell's last step: the win check's event, if any, is appended. *)
appendWon(won) ==
  IF won.e # NilEvent THEN appendEvents(won.st, << won.e >>) ELSE won.st

(* The cascade's events, if any, are appended. *)
appendRevealedNeighbors(revealedNeighbors) ==
  IF Len(revealedNeighbors.events) > 0
    THEN appendEvents(revealedNeighbors.st, revealedNeighbors.events)
    ELSE revealedNeighbors.st

(* RevealCell from the result of loseGameIfMined on: a loss is appended    *)
(* and the call returns; otherwise the cascade runs, then the win check.   *)
afterLossCheck(lost, coord, revealed) ==
  IF lost.e # NilEvent
    THEN appendEvents(lost.st, << lost.e >>)
    ELSE appendWon(
           winGameIfLastCell(
             appendRevealedNeighbors(
               revealNeighborsIfNoAdjacentMines(lost.st, coord, revealed)),
             coord))

(* RevealCell after validation: the reveal event is applied (and not       *)
(* appended to g.events), then the loss check, the cascade and the win     *)
(* check follow. The state it leaves.                                      *)
applyRevealed(st, coord, revealed) ==
  afterLossCheck(loseGameIfMined(applyTo(revealed, st), coord), coord, revealed)

applyMove(st, cellName, coord) ==
  applyRevealed(st, coord,
                cellRevealedEvent(st.g.id, st.g.version + 1, cellName, coord))

(* The result of RevealCell for the outcome move of its validation: the    *)
(* state it leaves, the error it returns and, for a call that passed       *)
(* validation, the coordinate it revealed.                                 *)
moveResult(st, cellName, move) ==
  IF move.err # "nil"
    THEN [st |-> st, err |-> move.err, coord |-> NoCoord]
    ELSE [st |-> applyMove(st, cellName, move.coord), err |-> "nil",
          coord |-> move.coord]

(* A variant of revealCell that counts the cell before it validates the    *)
(* move.                                                                   *)
revealCellCountsFirst(st, cellName) ==
  moveResult([st EXCEPT !.g.revealedOrFlaggedCellCount = @ + 1], cellName,
             checkMove(st, cellName))

revealCell(st, cellName) == moveResult(st, cellName, checkMove(st, cellName))

(* ------------------------------ NewGame ------------------------------- *)

(* The identifier uuid.NewRandom returns. *)
NewId == "00000000-0000-4000-8000-000000000000"

(* A variant of newGame that applies the first event and does not append   *)
(* it to g.events.                                                         *)
newGameUnlogged(grid) ==
  applyTo(gameStartedEvent(NewId, 1, GridAddr),
          [g |-> EmptyGame, heap |-> << grid >>, applied |-> 0])

(* The body of NewGame once generateGrid has returned grid and the         *)
(* identifier has been drawn: the grid is on the heap, the event holds the *)
(* slice, and applying the event gives the game the same slice.            *)
newGame(grid) ==
  LET st0 == [g |-> EmptyGame, heap |-> << grid >>, applied |-> 0]
      e == gameStartedEvent(NewId, 1, GridAddr)
  IN  appendEvents(applyTo(e, st0), << e >>)

(* Arguments NewGame is called with: the grid sizes and mine counts within *)
(* the bounds, and the values just outside each validation check.          *)
WidthInputs == GridWidths \cup {MinDim - 1, MaxDim + 1}
HeightInputs == GridHeights \cup {MinDim - 1, MaxDim + 1}
MineCountInputs(width, height) ==
  ((MinMines - 1)..MaxMines) \cup {width * height, width * height + 1}

NewGameCall(width, height, mineCount, err) ==
  [op |-> "NewGame", width |-> width, height |-> height,
   mineCount |-> mineCount, err |-> err]

NewGame ==
  /\ pc = "start"
  /\ \E width \in WidthInputs, height \in HeightInputs :
       \E mineCount \in MineCountInputs(width, height) :
         LET err == generateGridError(width, height, mineCount)
         IN  IF err # "nil"
               THEN /\ pc' = "error"
                    /\ call' = NewGameCall(width, height, mineCount, err)
                    /\ UNCHANGED <<g, heap, applied>>
               ELSE \E mineCoords \in chooseMinePlacements(width, height, mineCount) :
                      LET res == generateGrid(width, height, mineCoords)
                      IN  IF res.panic
                            THEN /\ pc' = "panic"
                                 /\ call' = NewGameCall(width, height, mineCount,
                                                        "IndexOutOfRange")
                                 /\ UNCHANGED <<g, heap, applied>>
                            ELSE \E uuidOk \in BOOLEAN :
                                   IF ~uuidOk
                                     THEN /\ pc' = "error"
                                          /\ call' = NewGameCall(width, height,
                                                       mineCount, "UnableToGenerateUUID")
                                          /\ UNCHANGED <<g, heap, applied>>
                                     ELSE LET st == newGame(res.matrix)
                                          IN  /\ pc' = "game"
                                              /\ call' = NewGameCall(width, height,
                                                           mineCount, "nil")
                                              /\ g' = st.g
                                              /\ heap' = st.heap
                                              /\ applied' = st.applied

RevealCell ==
  /\ pc = "game"
  /\ \E cellName \in CellNames :
       \E r \in {revealCell([g |-> g, heap |-> heap, applied |-> applied],
                             cellName)} :
         /\ g' = r.st.g
         /\ heap' = r.st.heap
         /\ applied' = r.st.applied
         /\ call' = [op |-> "RevealCell", err |-> r.err, coord |-> r.coord]
         /\ pc' = pc

IsComplete ==
  /\ pc = "game"
  /\ call' = [op |-> "IsComplete",
              result |-> isComplete([g |-> g, heap |-> heap, applied |-> applied])]
  /\ UNCHANGED <<pc, g, heap, applied>>

(* FlagCell and UndoMove have empty bodies. *)
FlagCell ==
  /\ pc = "game"
  /\ call' = [op |-> "FlagCell"]
  /\ UNCHANGED <<pc, g, heap, applied>>

UndoMove ==
  /\ pc = "game"
  /\ call' = [op |-> "UndoMove"]
  /\ UNCHANGED <<pc, g, heap, applied>>

Init ==
  /\ pc = "start"
  /\ g = EmptyGame
  /\ heap = << >>
  /\ call = [op |-> "none"]
  /\ applied = 0

Next == NewGame \/ RevealCell \/ IsComplete \/ FlagCell \/ UndoMove

Spec == Init /\ [][Next]_vars

(* ------------------- games on an injected layout ---------------------- *)

(* A grid literal for the layout mines, written the way the test fixture   *)
(* makeExampleGrid is: each cell that is not mined carries the number of   *)
(* mined cells around it, a mined cell carries isMined alone.              *)
makeGrid(width, height, mines) ==
  [y \in 0..(height - 1) |->
     [x \in 0..(width - 1) |->
        IF <<x, y>> \in mines
          THEN [cell EXCEPT !.isMined = TRUE]
          ELSE [cell EXCEPT !.adjacentMines =
                  Cardinality({m \in mines :
                                 /\ m[1] - x \in {-1, 0, 1}
                                 /\ m[2] - y \in {-1, 0, 1}})]]]

(* The layouts injected: every placement of up to MaxMines mines, none     *)
(* included, on every grid size within the bounds.                         *)
Layouts ==
  UNION {{makeGrid(width, height, mines) :
            mines \in UNION {chooseMinePlacements(width, height, k) :
                               k \in 0..MaxMines}} :
           width \in GridWidths, height \in GridHeights}

(* TestRevealCell's set-up: the first event of a game from NewGame is      *)
(* given the layout as its grid, put back at g.events[0] and applied a     *)
(* second time. The grid NewGame generated is referenced no more and is    *)
(* left off the heap.                                                      *)
injectGrid(grid) == applyTo(newGame(grid).g.events[1], newGame(grid))

InitInjected ==
  /\ pc = "game"
  /\ \E grid \in Layouts :
       \E st \in {injectGrid(grid)} :
         /\ g = st.g
         /\ heap = st.heap
         /\ applied = st.applied
  /\ call = [op |-> "inject"]

NextInjected == RevealCell \/ IsComplete \/ FlagCell \/ UndoMove

SpecInjected == InitInjected /\ [][NextInjected]_vars

(* ------------- RevealCell with the cascade loop step by step ----------- *)

(* The locals of revealNeighborsIfNoAdjacentMines when its loop starts for *)
(* the reveal of coord under the name cellName.                            *)
loopEntry(st, cellName, coord) ==
  [op |-> "RevealCell", cellName |-> cellName, coord |-> coord,
   queue |-> getNeighbors(coord, Len1(GridOf(st)), Len2(GridOf(st))),
   i |-> 1, events |-> << >>]

(* A variant of loopIteration that moves on to the next queue entry only   *)
(* after it has revealed one.                                              *)
loopIterationStalls(st, loop) ==
  IF ~GridOf(st)[loop.queue[loop.i][2]][loop.queue[loop.i][1]].isRevealed
       /\ ~GridOf(st)[loop.queue[loop.i][2]][loop.queue[loop.i][1]].isMined
    THEN [st |-> applyTo(cellRevealedEvent(st.g.id, st.g.version + 1,
                                           loop.cellName, loop.queue[loop.i]), st),
          loop |-> [loop EXCEPT !.events =
                                   Append(@, cellRevealedEvent(st.g.id,
                                               st.g.version + 1, loop.cellName,
                                               loop.queue[loop.i])),
                                !.i = @ + 1]]
    ELSE [st |-> st, loop |-> loop]

(* One iteration of the loop over queue, for queue[i] (indexed from 1      *)
(* here): the state and the locals it leaves.                              *)
loopIteration(st, loop) ==
  LET neighbor == GridOf(st)[loop.queue[loop.i][2]][loop.queue[loop.i][1]]
      revealed == cellRevealedEvent(st.g.id, st.g.version + 1, loop.cellName,
                                    loop.queue[loop.i])
  IN  IF ~neighbor.isRevealed /\ ~neighbor.isMined
        THEN [st |-> applyTo(revealed, st),
              loop |-> [loop EXCEPT
                          !.events = Append(@, revealed),
                          !.queue = IF neighbor.adjacentMines = 0
                                      THEN @ \o getNeighbors(loop.queue[loop.i],
                                                   Len1(GridOf(st)), Len2(GridOf(st)))
                                      ELSE @,
                          !.i = @ + 1]]
        ELSE [st |-> st, loop |-> [loop EXCEPT !.i = @ + 1]]

(* RevealCell up to the loop of the cascade: a rejected call, a loss and   *)
(* the reveal of a cell with adjacent mines return at once; the reveal of  *)
(* a cell with none enters the loop.                                       *)
revealCellEnter(st, cellName, move, lost) ==
  IF move.err # "nil"
    THEN [pc |-> "game", st |-> st, call |-> [op |-> "RevealCell", err |-> move.err]]
  ELSE IF lost.e # NilEvent
    THEN [pc |-> "game", st |-> appendEvents(lost.st, << lost.e >>),
          call |-> [op |-> "RevealCell", err |-> "nil"]]
  ELSE IF GridOf(lost.st)[move.coord[2]][move.coord[1]].adjacentMines > 0
    THEN [pc |-> "game", st |-> appendWon(winGameIfLastCell(lost.st, move.coord)),
          call |-> [op |-> "RevealCell", err |-> "nil"]]
  ELSE [pc |-> "cascade", st |-> lost.st,
        call |-> loopEntry(lost.st, cellName, move.coord)]

revealCellLossCheck(st, cellName, move) ==
  revealCellEnter(st, cellName, move,
    IF move.err # "nil" THEN [st |-> st, e |-> NilEvent]
    ELSE loseGameIfMined(
           applyTo(cellRevealedEvent(st.g.id, st.g.version + 1, cellName,
                                     move.coord), st),
           move.coord))

RevealCellEnter ==
  /\ pc = "game"
  /\ \E cellName \in CellNames :
       \E r \in {revealCellLossCheck([g |-> g, heap |-> heap, applied |-> applied],
                     cellName,
                     checkMove([g |-> g, heap |-> heap, applied |-> applied],
                               cellName))} :
         /\ pc' = r.pc
         /\ g' = r.st.g
         /\ heap' = r.st.heap
         /\ applied' = r.st.applied
         /\ call' = r.call

CascadeIterate ==
  /\ pc = "cascade"
  /\ call.i <= Len(call.queue)
  /\ \E r \in {loopIteration([g |-> g, heap |-> heap, applied |-> applied], call)} :
       /\ g' = r.st.g
       /\ heap' = r.st.heap
       /\ applied' = r.st.applied
       /\ call' = r.loop
  /\ pc' = pc

(* The loop has ended: the cascade's events are appended, the win check    *)
(* runs and RevealCell returns.                                            *)
CascadeReturn ==
  /\ pc = "cascade"
  /\ call.i > Len(call.queue)
  /\ \E st \in {appendWon(winGameIfLastCell(
                    appendRevealedNeighbors(
                      [st |-> [g |-> g, heap |-> heap, applied |-> applied],
                       events |-> call.events]),
                    call.coord))} :
       /\ g' = st.g
       /\ heap' = st.heap
       /\ applied' = st.applied
  /\ call' = [op |-> "RevealCell", err |-> "nil"]
  /\ pc' = "game"

NextCascade == RevealCellEnter \/ CascadeIterate \/ CascadeReturn

(* A call that has entered the loop keeps running: the loop's steps are    *)
(* taken as long as one is possible. Nothing is assumed about the caller   *)
(* making further calls.                                                   *)
SpecCascade ==
  InitInjected /\ [][NextCascade]_vars /\ WF_vars(CascadeIterate \/ CascadeReturn)

(* ------------------- the package's pure functions --------------------- *)

(* The strings of length 1..n over chars. *)
Strings(chars, n) == UNION {[1..k -> chars] : k \in 1..n}

(* Two names with a digit run of 20 digits: 99999999999999999999, above    *)
(* the largest int, and 00000000000000000001.                              *)
LongNames ==
  {<<65>> \o [k \in 1..20 |-> 57],
   <<65>> \o [k \in 1..20 |-> IF k = 20 THEN 49 ELSE 48]}

WireNames == Strings(WireChars, MaxNameLen) \cup LongNames
ColumnKeys == Strings(KeyLetters, MaxKeyLen)

InitFunctions ==
  /\ pc = "idle"
  /\ g = EmptyGame
  /\ heap = << >>
  /\ call = [op |-> "none"]
  /\ applied = 0

CallCellNameToCoordinate ==
  /\ pc = "idle"
  /\ \E cellName \in WireNames :
       \E decoded \in {cellNameToCoordinate(cellName)} :
         call' = [op |-> "cellNameToCoordinate", cellName |-> cellName,
                  err |-> decoded.err, coord |-> decoded.coord]
  /\ pc' = "returned"
  /\ UNCHANGED <<g, heap, applied>>

CallColumnKeyToInt ==
  /\ pc = "idle"
  /\ \E columnKey \in ColumnKeys :
       call' = [op |-> "columnKeyToInt", columnKey |-> columnKey,
                x |-> columnKeyToInt(columnKey)]
  /\ pc' = "returned"
  /\ UNCHANGED <<g, heap, applied>>

CallGetNeighbors ==
  /\ pc = "idle"
  /\ \E width \in NeighborSizes, height \in NeighborSizes :
       \E coord \in (0..(width - 1)) \X (0..(height - 1)) :
         call' = [op |-> "getNeighbors", coord |-> coord, width |-> width,
                  height |-> height,
                  neighbors |-> getNeighbors(coord, width, height)]
  /\ pc' = "returned"
  /\ UNCHANGED <<g, heap, applied>>

NextFunctions ==
  CallCellNameToCoordinate \/ CallColumnKeyToInt \/ CallGetNeighbors

SpecFunctions == InitFunctions /\ [][NextFunctions]_vars

(* --------------------------- observations ----------------------------- *)

cur == [g |-> g, heap |-> heap, applied |-> applied]

CoordsOf(st) == (DOMAIN GridOf(st)[0]) \X (DOMAIN GridOf(st))
CellOf(st, c) == GridOf(st)[c[2]][c[1]]
RevealedIn(st) == {c \in CoordsOf(st) : CellOf(st, c).isRevealed}
MinedIn(st) == {c \in CoordsOf(st) : CellOf(st, c).isMined}

(* The in-bounds cells around c: at most one column and one row away. *)
AdjacentCoords(st, c) ==
  {n \in CoordsOf(st) :
     n # c /\ n[1] - c[1] \in {-1, 0, 1} /\ n[2] - c[2] \in {-1, 0, 1}}

AdjacencyCorrect(st) ==
  \A c \in CoordsOf(st) :
    ~CellOf(st, c).isMined =>
      CellOf(st, c).adjacentMines =
        Cardinality({n \in AdjacentCoords(st, c) : CellOf(st, n).isMined})

(* The least set of cells that holds R and every zero-adjacency cell next  *)
(* to one of its zero-adjacency members.                                   *)
RECURSIVE ZeroRegion(_, _)
ZeroRegion(st, R) ==
  LET more == {n \in CoordsOf(st) :
                 /\ CellOf(st, n).adjacentMines = 0
                 /\ \E r \in R : n \in AdjacentCoords(st, r)}
  IN  IF more \subseteq R THEN R ELSE ZeroRegion(st, R \cup more)

RegionWithBorder(st, R) == R \cup UNION {AdjacentCoords(st, r) : r \in R}

HasEvent(st, type) == \E k \in 1..Len(st.g.events) : st.g.events[k].type = type

(* The aggregate an in-order replay of log leaves, started from game{} on  *)
(* the heap h.                                                             *)
RECURSIVE replayFrom(_, _, _)
replayFrom(st, log, k) ==
  IF k > Len(log) THEN st ELSE replayFrom(applyTo(log[k], st), log, k + 1)

Replayed == replayFrom([g |-> EmptyGame, heap |-> heap, applied |-> 0], g.events, 1)

(* The names that decode to the coordinate of a cell of the grid that is   *)
(* not revealed: the moves RevealCell accepts.                             *)
(* Pairs <<name, coordinate>>. *)
DecodedMoves ==
  UNION {{<<cellName, decoded.coord>> :
            decoded \in {d \in {cellNameToCoordinate(cellName)} : d.err = "nil"}} :
           cellName \in CellNames}

ValidMoves ==
  {m \in DecodedMoves : m[2] \in CoordsOf(cur) /\ ~CellOf(cur, m[2]).isRevealed}

LastCallRevealed ==
  pc = "game" /\ call.op = "RevealCell" /\ call.err = "nil"

(* ------------------------------ claims -------------------------------- *)

(* C1: replaying the aggregate's event log, in order, against an empty     *)
(* aggregate reproduces the state live play reached: the reveal flags of   *)
(* the grid, revealedOrFlaggedCellCount, isEnded and version.              *)
C1_ReplayReproducesLiveState ==
  pc = "game" =>
    /\ RevealedIn(Replayed) = RevealedIn(cur)
    /\ Replayed.g.revealedOrFlaggedCellCount = g.revealedOrFlaggedCellCount
    /\ Replayed.g.isEnded = g.isEnded
    /\ Replayed.g.version = g.version

(* C2: every RevealCell call that passes validation applies a CellRevealed *)
(* event for the target with version = current version + 1, appends that   *)
(* event to the log and counts the cell in revealedOrFlaggedCellCount.     *)
C2_RevealAppliesAndAppends ==
  pc = "game" =>
    \A m \in ValidMoves :
      \A r \in {revealCell(cur, m[1])} :
        /\ r.err = "nil"
        /\ CellOf(r.st, m[2]).isRevealed
        /\ r.st.g.revealedOrFlaggedCellCount >= g.revealedOrFlaggedCellCount + 1
        /\ Len(r.st.g.events) > Len(g.events)
        /\ r.st.g.events[Len(g.events) + 1] =
             cellRevealedEvent(g.id, g.version + 1, m[1], m[2])

(* C3: version is 1 after NewGame and grows by exactly 1 with every event  *)
(* applied afterwards: in every state of a game, version equals the number *)
(* of events applied to the aggregate.                                     *)
C3_VersionCountsAppliedEvents ==
  pc = "game" => g.version = applied

(* C4: for every valid (width, height, mineCount), square or not, NewGame  *)
(* succeeds without an index-out-of-range failure and returns a grid of    *)
(* height rows by width columns with exactly mineCount mined cells and no  *)
(* revealed cell. (A failure of the identifier provider is not counted.)   *)
C4_NewGameSucceedsOnValidInput ==
  ( /\ call.op = "NewGame"
    /\ generateGridError(call.width, call.height, call.mineCount) = "nil"
    /\ call.err # "UnableToGenerateUUID" ) =>
      /\ pc = "game"
      /\ call.err = "nil"
      /\ Len2(GridOf(cur)) = call.height
      /\ \A y \in DOMAIN GridOf(cur) :
           Cardinality(DOMAIN GridOf(cur)[y]) = call.width
      /\ Cardinality(MinedIn(cur)) = call.mineCount
      /\ RevealedIn(cur) = {}

(* C5: in every grid generateGrid returns, each non-mined cell's           *)
(* adjacentMines is the number of mined cells among its in-bounds          *)
(* neighbours (the cell at row y, column x).                               *)
C5_GeneratedAdjacencyCorrect ==
  (pc = "game" /\ call.op = "NewGame") => AdjacencyCorrect(cur)

(* C6: a RevealCell call that is rejected (the name does not decode, the   *)
(* decoded coordinate is outside the grid, row number 0 included, or the   *)
(* target is already revealed) returns an error and leaves the aggregate   *)
(* as it was: grid, counters, version, isEnded and event log.              *)
C6_RejectedCallChangesNothing ==
  pc = "game" =>
    \A cellName \in CellNames :
      \A r \in {revealCell(cur, cellName)} :
        \A decoded \in {cellNameToCoordinate(cellName)} :
          /\ r.err # "nil" => r.st = cur
          /\ ( \/ decoded.err # "nil"
               \/ decoded.coord \notin CoordsOf(cur)
               \/ CellOf(cur, decoded.coord).isRevealed ) => r.err # "nil"

(* A game in progress in which the last call was rejected because its cell *)
(* was already revealed.                                                   *)
C6_Witness ==
  /\ pc = "game"
  /\ call.op = "RevealCell"
  /\ call.err = "AlreadyRevealed"
  /\ ~g.isEnded
  /\ RevealedIn(cur) # {}
  /\ Len(g.events) > 1

(* C7: revealing a mined cell that is not yet revealed returns success,    *)
(* appends a GameLost event and nothing else (no cascade, no GameWon),     *)
(* sets isEnded, leaves every cell revealed and leaves                     *)
(* revealedOrFlaggedCellCount equal to cellCount.                          *)
C7_MinedRevealLoses ==
  pc = "game" =>
    \A m \in ValidMoves :
      CellOf(cur, m[2]).isMined =>
        \A r \in {revealCell(cur, m[1])} :
          /\ r.err = "nil"
          /\ Len(r.st.g.events) = Len(g.events) + 1
          /\ SubSeq(r.st.g.events, 1, Len(g.events)) = g.events
          /\ r.st.g.events[Len(g.events) + 1].type = "gameLostEvent"
          /\ r.st.g.isEnded
          /\ RevealedIn(r.st) = CoordsOf(cur)
          /\ r.st.g.cellCount = g.cellCount
          /\ r.st.g.revealedOrFlaggedCellCount = g.cellCount

(* A game lost by revealing a mine after other cells had been revealed,    *)
(* on a grid that has cells without a mine.                                *)
C7_Witness ==
  /\ LastCallRevealed
  /\ CellOf(cur, call.coord).isMined
  /\ g.isEnded
  /\ g.events[Len(g.events)].type = "gameLostEvent"
  /\ applied > 3
  /\ MinedIn(cur) # CoordsOf(cur)

(* C8: on a grid whose adjacency counts are correct, a successful          *)
(* RevealCell on a cell without a mine and with adjacentMines = 0 leaves   *)
(* revealed exactly the cells revealed before, the connected region of     *)
(* zero-adjacency cells around the target and every cell next to that      *)
(* region; the call reveals no mined cell.                                 *)
C8_CascadeRevealsZeroRegion ==
  (pc = "game" /\ AdjacencyCorrect(cur)) =>
    \A m \in ValidMoves :
      (~CellOf(cur, m[2]).isMined /\ CellOf(cur, m[2]).adjacentMines = 0) =>
        \A r \in {revealCell(cur, m[1])} :
          /\ r.err = "nil"
          /\ RevealedIn(r.st) =
               RevealedIn(cur) \cup RegionWithBorder(cur, ZeroRegion(cur, {m[2]}))
          /\ (RevealedIn(r.st) \ RevealedIn(cur)) \cap MinedIn(cur) = {}

(* A game in progress whose last call revealed a zero-adjacency cell after *)
(* an earlier reveal: the cascade has run and stopped at numbered cells,   *)
(* with cells that hold no mine still hidden.                              *)
C8_Witness ==
  /\ LastCallRevealed
  /\ AdjacencyCorrect(cur)
  /\ ~CellOf(cur, call.coord).isMined
  /\ CellOf(cur, call.coord).adjacentMines = 0
  /\ Cardinality(RevealedIn(cur)) > 4
  /\ Len(g.events) > 3
  /\ RevealedIn(cur) \cup MinedIn(cur) # CoordsOf(cur)
  /\ MinedIn(cur) # {}

(* C9: applying a GameWon event sets isEnded: once winGameIfLastCell has   *)
(* found revealedOrFlaggedCellCount = cellCount and applied the event,     *)
(* isEnded is true.                                                        *)
C9_GameWonSetsIsEnded ==
  (pc = "game" /\ HasEvent(cur, "gameWonEvent")) => g.isEnded

(* C10: the Won state is reached by revealing the cells that hold no mine: *)
(* when a reveal or its cascade has uncovered the last such cell and no    *)
(* mine has been revealed, a GameWon event is in the log.                  *)
C10_WonWhenLastSafeCellRevealed ==
  ( /\ LastCallRevealed
    /\ RevealedIn(cur) = CoordsOf(cur) \ MinedIn(cur) ) =>
      HasEvent(cur, "gameWonEvent")

(* C11: NewGame rejects an invalid configuration with an error and no     *)
(* game, and the first failing check of: a dimension below 2, a dimension  *)
(* above 40, fewer than 1 mine, more mines than cells, decides the error.  *)
C11_InvalidConfigurationRejected ==
  call.op = "NewGame" =>
    \A expected \in
        {IF call.width < 2 \/ call.height < 2 THEN "InvalidDimensionsTooSmall"
         ELSE IF call.width > 40 \/ call.height > 40 THEN "InvalidDimensionsTooLarge"
         ELSE IF call.mineCount < 1 THEN "TooFewMines"
         ELSE IF call.mineCount > call.width * call.height THEN "TooManyMines"
         ELSE "nil"} :
      /\ expected # "nil" => (call.err = expected /\ pc = "error" /\ g = EmptyGame)
      /\ expected = "nil" =>
           call.err \in {"nil", "IndexOutOfRange", "UnableToGenerateUUID"}

(* NewGame called with width 1 and height 41, which fail the first and the *)
(* second check: the call was rejected as too small.                       *)
C11_Witness ==
  /\ call.op = "NewGame"
  /\ call.width = 1
  /\ call.height = 41
  /\ call.err = "InvalidDimensionsTooSmall"
  /\ pc = "error"

(* C12: right after a successful NewGame the aggregate has a non-empty     *)
(* identifier, version 1, isEnded false, revealedOrFlaggedCellCount 0,     *)
(* cellCount = width * height, and a log of exactly one event: a           *)
(* GameStarted event with version 1 that carries the grid.                 *)
C12_FreshGameState ==
  (pc = "game" /\ call.op = "NewGame") =>
    /\ g.id # ""
    /\ g.version = 1
    /\ ~g.isEnded
    /\ g.revealedOrFlaggedCellCount = 0
    /\ g.cellCount = call.width * call.height
    /\ Len(g.events) = 1
    /\ g.events[1].type = "gameStartedEvent"
    /\ g.events[1].Version = 1
    /\ g.events[1].AggregateId = g.id
    /\ g.events[1].grid = g.grid
    /\ g.grid # NilSlice

(* A game NewGame has just returned for a grid that is not square. *)
C12_Witness ==
  /\ pc = "game"
  /\ call.op = "NewGame"
  /\ call.err = "nil"
  /\ call.width # call.height
  /\ Cardinality(MinedIn(cur)) = 1

(* Vocabulary of the cell-name claims: letters are A-Z and a-z. *)
IsLetter(ch) == ch \in (65..90) \cup (97..122)
IsDigit(ch) == ch \in 48..57

(* s is, in full, one or more letters followed by one or more digits. *)
LettersThenDigits(s) ==
  \E k \in 1..(Len(s) - 1) :
    /\ \A i \in 1..k : IsLetter(s[i])
    /\ \A i \in (k + 1)..Len(s) : IsDigit(s[i])

LetterRun(s) == SelectSeq(s, IsLetter)
DigitRun(s) == SelectSeq(s, IsDigit)

(* The decimal number the digits up to index k write. *)
RECURSIVE Decimal(_, _)
Decimal(digits, k) ==
  IF k = 0 THEN 0 ELSE 10 * Decimal(digits, k - 1) + (digits[k] - 48)

(* The digits of a run that follow its leading zeros. *)
SignificantDigits(digits) ==
  Len(digits) - Cardinality({k \in 1..Len(digits) : \A i \in 1..k : digits[i] = 48})

(* The 1-based bijective base-26 value of the letters of key up to index k, *)
(* with A or a = 1, ..., Z or z = 26.                                       *)
RECURSIVE Bijective26(_, _)
Bijective26(key, k) ==
  IF k = 0 THEN 0
  ELSE Bijective26(key, k - 1) * 26
       + (IF key[k] >= 97 THEN key[k] - 96 ELSE key[k] - 64)

UpperCase(key) == [k \in 1..Len(key) |-> IF key[k] >= 97 THEN key[k] - 32 ELSE key[k]]

(* C13: cellNameToCoordinate succeeds only for names that are, in full,    *)
(* one or more letters A-Z or a-z followed by one or more digits; every    *)
(* other string fails with an error.                                       *)
C13_OnlyWellFormedNamesDecode ==
  (call.op = "cellNameToCoordinate" /\ call.err = "nil") =>
    LettersThenDigits(call.cellName)

(* C14: columnKeyToInt is the zero-based bijective base-26 decoding of its *)
(* letter string (A = 0, Z = 25, AA = 26, BZ = 77), and a key gives the    *)
(* same result as its uppercase form.                                      *)
C14_ColumnKeyIsBijectiveBase26 ==
  call.op = "columnKeyToInt" =>
    /\ call.x = Bijective26(call.columnKey, Len(call.columnKey)) - 1
    /\ call.x = columnKeyToInt(UpperCase(call.columnKey))
    /\ call.columnKey = <<65>> => call.x = 0
    /\ call.columnKey = <<66>> => call.x = 1
    /\ call.columnKey = <<90>> => call.x = 25
    /\ call.columnKey = <<65, 65>> => call.x = 26
    /\ call.columnKey = <<66, 90>> => call.x = 77

(* columnKeyToInt has returned 77 for the mixed-case key "bZ". *)
C14_Witness ==
  /\ call.op = "columnKeyToInt"
  /\ call.columnKey = <<98, 90>>
  /\ call.x = 77

(* C15 as stated: for every name made of a letter run followed by a digit  *)
(* run, cellNameToCoordinate returns (x, y) with x = columnKeyToInt of the *)
(* letter run and y = the digit run's decimal number - 1.                  *)
C15_WellFormedNameDecodes ==
  (call.op = "cellNameToCoordinate" /\ LettersThenDigits(call.cellName)) =>
    /\ call.err = "nil"
    /\ call.coord[1] = columnKeyToInt(LetterRun(call.cellName))
    /\ call.coord[2] =
         Decimal(DigitRun(call.cellName), Len(DigitRun(call.cellName))) - 1

(* C15, amended: the same for every name made of a letter run followed by *)
(* a digit run that has fewer than 19 digits after its leading zeros.      *)
C15_WellFormedNameInRangeDecodes ==
  ( /\ call.op = "cellNameToCoordinate"
    /\ LettersThenDigits(call.cellName)
    /\ SignificantDigits(DigitRun(call.cellName)) < 19 ) =>
      /\ call.err = "nil"
      /\ call.coord[1] = columnKeyToInt(LetterRun(call.cellName))
      /\ call.coord[2] =
           Decimal(DigitRun(call.cellName), Len(DigitRun(call.cellName))) - 1

(* cellNameToCoordinate has decoded "b2" to (1, 1). *)
C15_Witness ==
  /\ call.op = "cellNameToCoordinate"
  /\ call.cellName = <<98, 50>>
  /\ call.err = "nil"
  /\ call.coord = <<1, 1>>

(* C16: for a coordinate inside a width x height grid, getNeighbors        *)
(* returns, without duplicates, exactly the coordinates of                 *)
(* {x-1, x, x+1} x {y-1, y, y+1} other than the input that lie inside the  *)
(* grid: 3 for a corner, 5 for another edge cell, 8 for an interior cell   *)
(* of a grid of at least 3 x 3.                                            *)
C16_NeighborsAreTheAdjacentCells ==
  call.op = "getNeighbors" =>
    /\ \A i \in 1..Len(call.neighbors) : \A j \in 1..Len(call.neighbors) :
         i # j => call.neighbors[i] # call.neighbors[j]
    /\ {call.neighbors[i] : i \in 1..Len(call.neighbors)} =
         {c \in ((call.coord[1] - 1)..(call.coord[1] + 1))
                  \X ((call.coord[2] - 1)..(call.coord[2] + 1)) :
            /\ c # call.coord
            /\ c[1] \in 0..(call.width - 1)
            /\ c[2] \in 0..(call.height - 1)}
    /\ (call.width >= 3 /\ call.height >= 3) =>
         \A onEdges \in
             {Cardinality({d \in {1} : call.coord[1] \in {0, call.width - 1}})
              + Cardinality({d \in {1} : call.coord[2] \in {0, call.height - 1}})} :
           Len(call.neighbors) =
             (IF onEdges = 2 THEN 3 ELSE IF onEdges = 1 THEN 5 ELSE 8)

(* getNeighbors has returned the 8 neighbours of an interior cell. *)
C16_Witness ==
  /\ call.op = "getNeighbors"
  /\ call.coord[1] \in 1..(call.width - 2)
  /\ call.coord[2] \in 1..(call.height - 2)
  /\ Len(call.neighbors) = 8

Terminal(e) == e.type \in {"gameLostEvent", "gameWonEvent"}
TerminalEvents(st) == {k \in 1..Len(st.g.events) : Terminal(st.g.events[k])}

(* C17: once a GameWon or GameLost event is in the log, every RevealCell   *)
(* call, for any cell name, returns an error and appends no event; the log *)
(* holds one terminal event and it is the last entry.                      *)
C17_NoMoveAfterTerminalEvent ==
  (pc = "game" /\ TerminalEvents(cur) # {}) =>
    /\ TerminalEvents(cur) = {Len(g.events)}
    /\ \A cellName \in CellNames :
         \A r \in {revealCell(cur, cellName)} :
           r.err # "nil" /\ r.st.g.events = g.events

(* A lost game, after earlier reveals, in which a later RevealCell call    *)
(* was rejected.                                                           *)
C17_Witness ==
  /\ pc = "game"
  /\ HasEvent(cur, "gameLostEvent")
  /\ call.op = "RevealCell"
  /\ call.err = "AlreadyRevealed"
  /\ Len(g.events) > 2

(* The cells of st that are revealed or flagged. *)
CountedIn(st) ==
  {c \in CoordsOf(st) : CellOf(st, c).isRevealed \/ CellOf(st, c).isFlagged}

CountMatchesCells(st) ==
  /\ st.g.revealedOrFlaggedCellCount = Cardinality(CountedIn(st))
  /\ st.g.revealedOrFlaggedCellCount <= st.g.cellCount
  /\ HasEvent(st, "gameLostEvent") =>
       st.g.revealedOrFlaggedCellCount = st.g.cellCount

(* C18: in every state reached from NewGame by RevealCell calls,           *)
(* revealedOrFlaggedCellCount is the number of cells revealed or flagged;  *)
(* no step decreases it, it never exceeds cellCount and it equals          *)
(* cellCount after a loss.                                                 *)
C18_CountIsRevealedOrFlaggedCells ==
  [][ /\ pc' = "game" => CountMatchesCells(cur)'
      /\ pc = "game" =>
           g'.revealedOrFlaggedCellCount >= g.revealedOrFlaggedCellCount ]_vars

(* A game in progress in which a cascade has brought the count to 4 or     *)
(* more.                                                                   *)
C18_Witness ==
  /\ LastCallRevealed
  /\ ~g.isEnded
  /\ g.revealedOrFlaggedCellCount >= 4
  /\ g.revealedOrFlaggedCellCount < g.cellCount

(* C19: isEnded is false after NewGame, no step resets it to false, and it *)
(* is true in every state in which a GameLost or GameWon event is in the   *)
(* log.                                                                    *)
C19_IsEndedLatches ==
  [][ /\ (pc = "game" /\ g.isEnded) => g'.isEnded
      /\ (pc' = "game" /\ call'.op \in {"NewGame", "inject"}) => ~g'.isEnded
      /\ (pc' = "game" /\ TerminalEvents(cur)' # {}) => g'.isEnded ]_vars

(* C20: IsComplete returns false in every state of the game, also after    *)
(* the game has ended.                                                     *)
C20_IsCompleteReturnsFalse ==
  call.op = "IsComplete" => call.result = FALSE

(* IsComplete has been called on a lost game. *)
C20_Witness ==
  /\ call.op = "IsComplete"
  /\ call.result = FALSE
  /\ g.isEnded
  /\ HasEvent(cur, "gameLostEvent")

(* The grid the logged GameStarted event carries, dereferenced. *)
LoggedGrid(st) == st.heap[st.g.events[1].grid]

(* C21: the grid carried by the logged GameStarted event stays the grid    *)
(* that was generated, with every cell unrevealed, after any sequence of   *)
(* RevealCell calls.                                                       *)
C21_LoggedGridStaysUnrevealed ==
  pc = "game" =>
    \A y \in DOMAIN LoggedGrid(cur) : \A x \in DOMAIN LoggedGrid(cur)[y] :
      ~LoggedGrid(cur)[y][x].isRevealed

(* What no operation on a game changes: the identifier, cellCount, the     *)
(* grid's dimensions and each cell's isMined, adjacentMines and isFlagged. *)
Fixed(st) ==
  [id |-> st.g.id, cellCount |-> st.g.cellCount,
   cells |-> [c \in CoordsOf(st) |->
                <<CellOf(st, c).isMined, CellOf(st, c).adjacentMines,
                  CellOf(st, c).isFlagged>>]]

(* C25: no operation after NewGame (RevealCell, FlagCell, UndoMove,        *)
(* IsComplete) changes the identifier, cellCount, the grid's dimensions or *)
(* a cell's isMined, adjacentMines or isFlagged, and isFlagged is false    *)
(* for every cell in every state.                                          *)
C25_OperationsKeepTheLayout ==
  [][ /\ pc = "game" => Fixed(cur)' = Fixed(cur)
      /\ pc' = "game" => \A c \in CoordsOf(cur)' : ~CellOf(cur, c)'.isFlagged ]_vars

(* FlagCell has been called on a game in progress that has revealed cells. *)
C25_Witness ==
  /\ pc = "game"
  /\ call.op = "FlagCell"
  /\ ~g.isEnded
  /\ RevealedIn(cur) # {}

(* C26: while isEnded is false, no mined cell is revealed. *)
C26_NoMineRevealedInProgress ==
  (pc = "game" /\ ~g.isEnded) => RevealedIn(cur) \cap MinedIn(cur) = {}

(* A game in progress with revealed cells and a hidden mine, on a grid     *)
(* whose cascade has run.                                                  *)
C26_Witness ==
  /\ LastCallRevealed
  /\ ~g.isEnded
  /\ Cardinality(RevealedIn(cur)) >= 3
  /\ MinedIn(cur) # {}
  /\ Len(g.events) > 1

(* C27: on a grid with correct adjacency counts, after every RevealCell    *)
(* call, every revealed cell without a mine and with adjacentMines = 0 has *)
(* all of its in-bounds neighbours revealed.                               *)
C27_RevealedZeroCellsAreClosed ==
  (pc = "game" /\ AdjacencyCorrect(cur)) =>
    \A c \in RevealedIn(cur) :
      (~CellOf(cur, c).isMined /\ CellOf(cur, c).adjacentMines = 0) =>
        AdjacentCoords(cur, c) \subseteq RevealedIn(cur)

(* A game in progress in which a cascade met cells revealed by an earlier  *)
(* call: a numbered cell was revealed first, then a zero cell next to it.  *)
C27_Witness ==
  /\ LastCallRevealed
  /\ ~g.isEnded
  /\ AdjacencyCorrect(cur)
  /\ MinedIn(cur) # {}
  /\ CellOf(cur, call.coord).adjacentMines = 0
  /\ applied > Len(g.events) + 1
  /\ RevealedIn(cur) \cup MinedIn(cur) # CoordsOf(cur)

(* The events a call appended to the log old. *)
Appended(st, old) == SubSeq(st.g.events, Len(old) + 1, Len(st.g.events))

(* The events the call to coordinate target appended tell every applyTo    *)
(* call it made besides that of the target's own CellRevealed; the         *)
(* CellRevealed events among them are for distinct cells other than the    *)
(* target, each hidden before the call and without a mine.                 *)
AppliesOncePerCell(st, r, target) ==
  \A es \in {Appended(r.st, st.g.events)} :
    /\ r.st.applied = st.applied + 1 + Len(es)
    /\ \A i \in 1..Len(es) :
         es[i].type = "cellRevealedEvent" =>
           /\ es[i].CellCoord # target
           /\ es[i].CellCoord \in CoordsOf(st)
           /\ ~CellOf(st, es[i].CellCoord).isRevealed
           /\ ~CellOf(st, es[i].CellCoord).isMined
           /\ \A j \in 1..Len(es) :
                (j # i /\ es[j].type = "cellRevealedEvent") =>
                  es[j].CellCoord # es[i].CellCoord

(* C22: no cell is revealed twice: a RevealCell call applies at most one  *)
(* CellRevealed event per coordinate, also when the cascade reaches a      *)
(* coordinate along several paths, and each of them targets a cell that    *)
(* was hidden before the call and, in the cascade, holds no mine.          *)
C22_NoCellRevealedTwice ==
  pc = "game" =>
    \A m \in ValidMoves :
      \A r \in {revealCell(cur, m[1])} :
        /\ ~CellOf(cur, m[2]).isRevealed
        /\ AppliesOncePerCell(cur, r, m[2])

(* A game whose last call revealed a zero cell with an interior neighbour: *)
(* the cascade has reached cells along several paths.                      *)
C22_Witness ==
  /\ LastCallRevealed
  /\ CellOf(cur, call.coord).adjacentMines = 0
  /\ ~CellOf(cur, call.coord).isMined
  /\ Cardinality(RevealedIn(cur)) >= 6
  /\ MinedIn(cur) # {}
  /\ ~g.isEnded

(* What the commutation of reveals compares: the revealed cells, the      *)
(* count and isEnded.                                                      *)
Board(st) == <<RevealedIn(st), st.g.revealedOrFlaggedCellCount, st.g.isEnded>>

(* The moves to cells that hold no mine. *)
SafeMoves == {m \in ValidMoves : ~CellOf(cur, m[2]).isMined}

(* C28: for two cells a and b without a mine of a game in progress,        *)
(* RevealCell(a) then RevealCell(b) leaves the same revealed cells, the    *)
(* same revealedOrFlaggedCellCount and the same isEnded as RevealCell(b)   *)
(* then RevealCell(a); a call rejected as already revealed changes         *)
(* nothing.                                                                *)
C28_SafeRevealsCommute ==
  (pc = "game" /\ ~g.isEnded) =>
    \A a \in SafeMoves :
      \A afterA \in {revealCell(cur, a[1]).st} :
        \A b \in {m \in SafeMoves : m[2] # a[2] /\ m[2][1] * 100 + m[2][2] > a[2][1] * 100 + a[2][2]} :
          Board(revealCell(afterA, b[1]).st)
            = Board(revealCell(revealCell(cur, b[1]).st, a[1]).st)

(* A game in progress with a hidden zero cell and a hidden numbered cell   *)
(* next to it, both without a mine: revealing the zero cell first makes    *)
(* the other call a rejected one.                                          *)
C28_Witness ==
  /\ pc = "game"
  /\ ~g.isEnded
  /\ MinedIn(cur) # {}
  /\ RevealedIn(cur) # {}
  /\ \E a \in SafeMoves : \E b \in SafeMoves :
       /\ CellOf(cur, a[2]).adjacentMines = 0
       /\ CellOf(cur, b[2]).adjacentMines > 0
       /\ b[2] \in AdjacentCoords(cur, a[2])

(* The eight neighbour offsets in the order getNeighbors lists them, and   *)
(* the listing orders compared: every rotation of that list.               *)
Offsets ==
  << <<0, -1>>, <<0, 1>>, <<-1, 0>>, <<-1, -1>>, <<-1, 1>>, <<1, 0>>, <<1, -1>>,
     <<1, 1>> >>
ListingOrders == {[k \in 1..8 |-> Offsets[((k + shift - 1) % 8) + 1]] : shift \in 0..7}

(* The in-bounds neighbours of c, listed in the order dirs. *)
ListedNeighbors(dirs, st, c) ==
  LET all == [k \in 1..8 |-> <<c[1] + dirs[k][1], c[2] + dirs[k][2]>>]
      Inside(n) == n \in CoordsOf(st)
  IN  SelectSeq(all, Inside)

(* The cells a cascade reveals when neighbours are listed in the order     *)
(* dirs and the work list is taken from its front, new entries going to    *)
(* its back (fifo) or to its front: the cells in found and those the rest  *)
(* of the work list leads to.                                              *)
RECURSIVE CascadeInOrder(_, _, _, _, _)
CascadeInOrder(dirs, fifo, st, work, found) ==
  IF work = << >> THEN found
  ELSE IF \/ Head(work) \in found
          \/ CellOf(st, Head(work)).isRevealed
          \/ CellOf(st, Head(work)).isMined
    THEN CascadeInOrder(dirs, fifo, st, Tail(work), found)
  ELSE IF CellOf(st, Head(work)).adjacentMines # 0
    THEN CascadeInOrder(dirs, fifo, st, Tail(work), found \cup {Head(work)})
  ELSE CascadeInOrder(dirs, fifo, st,
                      IF fifo THEN Tail(work) \o ListedNeighbors(dirs, st, Head(work))
                              ELSE ListedNeighbors(dirs, st, Head(work)) \o Tail(work),
                      found \cup {Head(work)})

(* C24: the cascade is confluent: for a grid state and a target cell, the  *)
(* cells revealed after RevealCell are those a cascade reveals under every *)
(* order of listing the neighbours and of processing the work list.        *)
C24_CascadeIsConfluent ==
  pc = "game" =>
    \A m \in ValidMoves :
      ~CellOf(cur, m[2]).isMined =>
        \A after \in {RevealedIn(revealCell(cur, m[1]).st)} :
          \A dirs \in ListingOrders : \A fifo \in BOOLEAN :
            after = RevealedIn(cur)
                      \cup CascadeInOrder(dirs, fifo, cur, << m[2] >>, {})

(* A game in progress, with cells revealed by an earlier call, whose last  *)
(* call ran a cascade that went on from a second zero cell.                *)
C24_Witness ==
  /\ LastCallRevealed
  /\ ~g.isEnded
  /\ ~CellOf(cur, call.coord).isMined
  /\ CellOf(cur, call.coord).adjacentMines = 0
  /\ \E c \in AdjacentCoords(cur, call.coord) : CellOf(cur, c).adjacentMines = 0
  /\ applied > Len(g.events) + 1
  /\ MinedIn(cur) # {}

(* C23: every RevealCell call terminates: a call that has entered the     *)
(* cascade's loop leaves it, and it applies at most cellCount CellRevealed *)
(* events (the target's and fewer than cellCount in the cascade).          *)
C23_RevealCellTerminates ==
  /\ [](pc = "cascade" => Len(call.events) < g.cellCount)
  /\ ((pc = "cascade") ~> (pc = "game"))

(* A cascade in its loop that has revealed cells and has queue entries     *)
(* reached a second time waiting.                                          *)
C23_Witness ==
  /\ pc = "cascade"
  /\ Len(call.events) >= 5
  /\ Len(call.queue) > g.cellCount
  /\ call.i <= Len(call.queue)

====
